---- MODULE Spec2Model ----
(***************************************************************************)
(* gpg_list.py: scan a directory, ask GnuPG for the recipients of every    *)
(* file, report [file, recipient, is_encrypted] rows as a table and/or a   *)
(* CSV file.                                                               *)
(*                                                                         *)
(* Spec     the whole program (main and everything it calls).              *)
(* CsvSpec  write_array_to_csv alone, called with arbitrary arguments.     *)
(***************************************************************************)
EXTENDS Integers, Sequences, FiniteSets, TLC

\* ------------------------------------------------------------------ bounds
\* Number of regular files below the scanned directory.
MaxFiles == 2
\* Length of the list gpg.get_recipients_file returns.
MaxRecipients == 2
\* Number of data rows handed to write_array_to_csv in CsvSpec.
MaxRows == 2

\* ------------------------------------------------------------ Python values
\* A Python value of the kinds the program handles: None, a bool, a str.
PyNone == [t |-> "None", v |-> ""]
PyBool(b) == [t |-> "bool", v |-> IF b THEN "True" ELSE "False"]
PyStr(s) == [t |-> "str", v |-> s]
PyFalse == PyBool(FALSE)
PyTrue == PyBool(TRUE)

\* Python truth value: None, False and the empty string are falsy.
Truthy(x) ==
    CASE x.t = "None" -> FALSE
      [] x.t = "bool" -> x.v = "True"
      [] x.t = "str" -> x.v # ""

\* str(x) as csv.writer writes a field: None is written as the empty string.
CsvField(x) == IF x.t = "None" THEN "" ELSE x.v

Last(s) == s[Len(s)]

\* ------------------------------------------------------------- environment
\* Key IDs gpg can report; the first is the one of a hidden (wildcard) recipient.
ZeroKeyId == "0000000000000000"
KeyIds == {ZeroKeyId, "DEADBEEF01234567", "0123456789ABCDEF"}

RECURSIVE SeqsUpTo(_, _)
\* All sequences over S of length at most n.
SeqsUpTo(S, n) ==
    IF n = 0 THEN {<<>>}
    ELSE LET shorter == SeqsUpTo(S, n - 1)
         IN  shorter \cup {Append(s, x) : s \in {q \in shorter : Len(q) = n - 1}, x \in S}

\* What a file is to get_encrypted_recipient: open() succeeds or raises, and
\* gpg.get_recipients_file raises or returns a list of key IDs.
FileContents ==
    {[readable |-> FALSE, parse_raises |-> FALSE, recipients |-> <<>>],
     [readable |-> TRUE, parse_raises |-> TRUE, recipients |-> <<>>]}
    \cup {[readable |-> TRUE, parse_raises |-> FALSE, recipients |-> r] :
            r \in SeqsUpTo(KeyIds, MaxRecipients)}

NoContent == [readable |-> FALSE, parse_raises |-> FALSE, recipients |-> <<>>]

\* The directory argument as typed, split at "/".
RawDirs == {<<"d">>, <<".", "d", "x", "..">>, <<"f">>, <<"x">>, <<"d", "x">>}
\* The --out_file argument: not given, given empty, given.
OutArgs == {PyNone, PyStr(""), PyStr("out.csv")}

\* The working directory holds the directory d, the regular file f, nothing else.
FsKind(p) == IF p = "d" THEN "dir" ELSE IF p = "f" THEN "file" ELSE "missing"

AbsentFile == [exists |-> FALSE, content |-> <<>>]
OldFile == [exists |-> TRUE, content |-> <<<<"old">>>>]

VARIABLES
    fs_ntop,        \* regular files directly in d
    fs_nsub,        \* regular files in the subdirectory d/s
    gpg_installed,  \* gnupg.GPG() can run the gpg binary
    outFile,        \* the file at the output path
    outFileBefore,  \* history: outFile when the program (or the call) started
    pc,             \* position in main
    args,           \* argparse namespace
    RECURSIVE_, SUPRESS, ALLOW_CLOBBER, PATH_TO_CHECK, OUTFILE_PATH,
    files_to_check, result_array, headers,
    idx,            \* the for loop's position in files_to_check
    cur,            \* what the file being (or, in the loop, last) classified holds
    openHandles,    \* paths of the scanned files currently open
    calls,          \* history: paths get_encrypted_recipient was called with
    stdout,         \* messages printed, in order
    tableOut,       \* rows handed to tabulate
    write_ret,      \* return value of write_array_to_csv
    exitCode,       \* process exit status once it has ended
    uncaught        \* exception that left main

envVars == <<fs_ntop, fs_nsub, gpg_installed>>
argVars == <<args, RECURSIVE_, SUPRESS, ALLOW_CLOBBER, PATH_TO_CHECK, OUTFILE_PATH>>
scanVars == <<files_to_check, result_array, idx, cur, openHandles, calls>>
outVars == <<outFile, tableOut, write_ret>>
vars == <<envVars, argVars, scanVars, outVars, outFileBefore, pc, headers, stdout,
          exitCode, uncaught>>

\* -------------------------------------------------------------------- paths
RECURSIVE Join(_)
\* os.path.join of the components.
Join(comps) ==
    IF Len(comps) = 0 THEN ""
    ELSE IF Len(comps) = 1 THEN comps[1]
    ELSE comps[1] \o "/" \o Join(Tail(comps))

RECURSIVE NormComps(_, _)
\* os.path.normpath on a relative path: "." and empty components are dropped,
\* ".." removes the component before it.
NormComps(comps, acc) ==
    IF comps = <<>> THEN acc
    ELSE LET c == Head(comps)
         IN  IF c \in {"", "."} THEN NormComps(Tail(comps), acc)
             ELSE IF c # ".." \/ acc = <<>> \/ Last(acc) = ".."
                  THEN NormComps(Tail(comps), Append(acc, c))
                  ELSE NormComps(Tail(comps), SubSeq(acc, 1, Len(acc) - 1))

normpath(comps) ==
    LET n == NormComps(comps, <<>>) IN IF n = <<>> THEN "." ELSE Join(n)

\* Variant: the os.path.isdir check is left out.
validate_no_isdir_check(path) ==
    LET sanitized_path == normpath(path)
    IN  IF FsKind(sanitized_path) = "missing"
        THEN [raised |-> "FileNotFoundError", value |-> ""]
        ELSE [raised |-> "", value |-> sanitized_path]

\* validate_and_sanitize_directory_path: the normalised path, or the exception.
validate_and_sanitize_directory_path(path) ==
    LET sanitized_path == normpath(path)
    IN  IF FsKind(sanitized_path) = "missing"
        THEN [raised |-> "FileNotFoundError", value |-> ""]
        ELSE IF FsKind(sanitized_path) # "dir"
        THEN [raised |-> "NotADirectoryError", value |-> ""]
        ELSE [raised |-> "", value |-> sanitized_path]

\* Names of the regular files directly in d, and in d/s, in the OS's order.
TopNames(n) == [i \in 1..n |-> "a" \o ToString(i)]
SubNames(n) == [i \in 1..n |-> "c" \o ToString(i)]

\* list_all_files: os.walk yields d with its file names, then d/s with its own;
\* os.listdir yields the entries of d, of which the subdirectory s is no file.
\* main passes only a validated directory; of anything else nothing is listed.
list_all_files(directory, recursive, ntop, nsub) ==
    IF FsKind(directory) # "dir" THEN <<>>
    ELSE LET top == [i \in 1..ntop |-> Join(<<directory, TopNames(ntop)[i]>>)]
             sub == [i \in 1..nsub |-> Join(<<Join(<<directory, "s">>), SubNames(nsub)[i]>>)]
         IN  IF recursive THEN top \o sub ELSE top

\* ----------------------------------------------------------- classification
\* Variant: the handle is closed on the normal path only.
ReleaseHandle_LeakOnRaise(handles, path, raised) ==
    IF raised THEN handles ELSE handles \ {path}

\* The with statement's exit: the handle of the file is closed, whether the
\* body returned or raised.
ReleaseHandle(handles, path, raised) == handles \ {path}

\* Variant: result[-1] instead of result[0].
FirstRecipient_Last(result) == IF Len(result) > 0 THEN PyStr(Last(result)) ELSE PyNone

\* Variant: an all-zero first key ID is turned into None.
FirstRecipient_HidesZero(result) ==
    IF Len(result) > 0 /\ result[1] # ZeroKeyId THEN PyStr(result[1]) ELSE PyNone

\* result[0] if result else None
FirstRecipient(result) == IF Len(result) > 0 THEN PyStr(result[1]) ELSE PyNone

\* get_encrypted_recipient on a file holding content: the exception that
\* leaves it ("" when it returns), the value returned, what it prints.
get_encrypted_recipient(content, gpg_ok) ==
    IF ~gpg_ok
    THEN [raised |-> "OSError", value |-> PyNone, printed |-> <<>>]
    ELSE IF ~content.readable \/ content.parse_raises
    THEN [raised |-> "", value |-> PyFalse, printed |-> <<"Error checking file">>]
    ELSE [raised |-> "", value |-> FirstRecipient(content.recipients), printed |-> <<>>]

\* Variant: recipient is not None.
IsEncrypted_NotNone(recipient) == recipient # PyNone

\* is_encrypted = True if recipient else False
IsEncrypted(recipient) == Truthy(recipient)

\* Variant: result_array.insert(0, ...).
AppendRow_Prepend(arr, file, recipient) ==
    <<<<PyStr(file), recipient, PyBool(IsEncrypted(recipient))>>>> \o arr

\* result_array.append([file, recipient, is_encrypted])
AppendRow(arr, file, recipient) ==
    Append(arr, <<PyStr(file), recipient, PyBool(IsEncrypted(recipient))>>)

\* ---------------------------------------------------------------------- CSV
CsvRowOf(row) == [j \in 1..Len(row) |-> CsvField(row[j])]

\* What writer.writerow(headers); writer.writerows(data) puts in the file.
CsvLines(hdrs, data) == <<CsvRowOf(hdrs)>> \o [i \in 1..Len(data) |-> CsvRowOf(data[i])]

\* How the open and the writes of one call go: all succeed, open raises, or a
\* write raises after k lines reached the (already truncated) file.
IoOutcomes(nlines) ==
    {[kind |-> "ok", k |-> 0], [kind |-> "open_fails", k |-> 0]}
    \cup {[kind |-> "write_fails", k |-> k] : k \in 0..(nlines - 1)}

\* Variant: the row lengths are not validated.
RowsMismatch_Unchecked(data, hdrs) == FALSE

\* not all(len(row) == len(headers) for row in data)
RowsMismatch(data, hdrs) == \E i \in 1..Len(data) : Len(data[i]) # Len(hdrs)

\* Variant: an existing file is always overwritten.
ClobberRefused_Never(file, allow_clobber) == FALSE

\* os.path.exists(output_file) and not allow_clobber
ClobberRefused(file, allow_clobber) == file.exists /\ ~allow_clobber

\* write_array_to_csv: the value returned, the file afterwards, what is
\* printed, and whether an exception leaves the function (every exception of
\* the body is caught by one of the three handlers).
write_array_to_csv(data, hdrs, file, allow_clobber, io) ==
    IF RowsMismatch(data, hdrs)
    THEN [ret |-> FALSE, file |-> file, printed |-> "Error: ValueError", raised |-> FALSE]
    ELSE IF ClobberRefused(file, allow_clobber)
    THEN [ret |-> FALSE, file |-> file, printed |-> "Error: FileExistsError",
          raised |-> FALSE]
    ELSE IF io.kind = "open_fails"
    THEN [ret |-> FALSE, file |-> file, printed |-> "An unexpected error occurred",
          raised |-> FALSE]
    ELSE IF io.kind = "write_fails"
    THEN [ret |-> FALSE,
          file |-> [exists |-> TRUE, content |-> SubSeq(CsvLines(hdrs, data), 1, io.k)],
          printed |-> "An unexpected error occurred", raised |-> FALSE]
    ELSE [ret |-> TRUE, file |-> [exists |-> TRUE, content |-> CsvLines(hdrs, data)],
          printed |-> "File successfully written", raised |-> FALSE]

\* --------------------------------------------------------------------- main
MainHeaders == <<PyStr("File Path"), PyStr("Recipient UID"), PyStr("Is Encrypted")>>

NoArgs == [directory |-> <<>>, recursive |-> FALSE, supress_output |-> FALSE,
           out_file |-> PyNone, allow_clobber |-> FALSE]

ArgSets == [directory : RawDirs, recursive : BOOLEAN, supress_output : BOOLEAN,
            out_file : OutArgs, allow_clobber : BOOLEAN]

Init ==
    /\ fs_ntop \in 0..MaxFiles
    /\ fs_nsub \in 0..(MaxFiles - fs_ntop)
    /\ gpg_installed \in BOOLEAN
    /\ outFile \in {AbsentFile, OldFile}
    /\ outFileBefore = outFile
    /\ pc = "start"
    /\ args = NoArgs
    /\ RECURSIVE_ = FALSE /\ SUPRESS = FALSE /\ ALLOW_CLOBBER = FALSE
    /\ PATH_TO_CHECK = "" /\ OUTFILE_PATH = PyNone
    /\ files_to_check = <<>> /\ result_array = <<>> /\ headers = <<>>
    /\ idx = 1
    /\ cur = NoContent
    /\ openHandles = {}
    /\ calls = <<>>
    /\ stdout = <<>>
    /\ tableOut = [printed |-> FALSE, rows |-> <<>>]
    /\ write_ret = PyNone
    /\ exitCode = ""
    /\ uncaught = ""

\* The process ends with status 1, by sys.exit(1) or by an uncaught exception.
Die(exc, msgs) ==
    /\ pc' = "exit"
    /\ exitCode' = "1"
    /\ uncaught' = exc
    /\ stdout' = stdout \o msgs

\* Argument parsing and validation, up to OUTFILE_PATH = args.out_file.
Start ==
    /\ pc = "start"
    /\ \E a \in ArgSets :
        /\ args' = a
        /\ IF a.supress_output /\ ~Truthy(a.out_file)
           THEN /\ Die("", <<"Error: -s requires -o">>)
                /\ UNCHANGED <<RECURSIVE_, SUPRESS, ALLOW_CLOBBER, PATH_TO_CHECK,
                               OUTFILE_PATH>>
           ELSE IF a.allow_clobber /\ ~Truthy(a.out_file)
           THEN /\ Die("", <<"Error: -a requires -o">>)
                /\ UNCHANGED <<RECURSIVE_, SUPRESS, ALLOW_CLOBBER, PATH_TO_CHECK,
                               OUTFILE_PATH>>
           ELSE LET v == validate_and_sanitize_directory_path(a.directory)
                IN  /\ RECURSIVE_' = a.recursive
                    /\ SUPRESS' = a.supress_output
                    /\ ALLOW_CLOBBER' = a.allow_clobber
                    /\ IF v.raised # ""
                       THEN /\ Die(v.raised, <<>>)
                            /\ UNCHANGED <<PATH_TO_CHECK, OUTFILE_PATH>>
                       ELSE /\ PATH_TO_CHECK' = v.value
                            /\ OUTFILE_PATH' = a.out_file
                            /\ pc' = "list"
                            /\ UNCHANGED <<exitCode, uncaught, stdout>>
    /\ UNCHANGED <<envVars, scanVars, outVars, outFileBefore, headers>>

\* files_to_check = list_all_files(PATH_TO_CHECK, RECURSIVE); result_array = []
ListFiles ==
    /\ pc = "list"
    /\ files_to_check' = list_all_files(PATH_TO_CHECK, RECURSIVE_, fs_ntop, fs_nsub)
    /\ result_array' = <<>>
    /\ idx' = 1
    /\ pc' = "loop"
    /\ UNCHANGED <<envVars, argVars, outVars, outFileBefore, headers, cur, openHandles,
                   calls, stdout, exitCode, uncaught>>

\* The loop takes the next file and calls get_encrypted_recipient, which runs
\* up to the open: gnupg.GPG() may raise (outside the try), open may raise
\* (caught: the call returns False and the row is appended).
ClassifyOpen ==
    /\ pc = "loop"
    /\ idx <= Len(files_to_check)
    /\ \E c \in FileContents :
        LET file == files_to_check[idx]
            r == get_encrypted_recipient(c, gpg_installed)
        IN  /\ cur' = c
            /\ calls' = Append(calls, file)
            /\ IF r.raised # ""
               THEN /\ Die(r.raised, <<>>)
                    /\ UNCHANGED <<result_array, idx, openHandles>>
               ELSE IF ~c.readable
               THEN /\ result_array' = AppendRow(result_array, file, r.value)
                    /\ stdout' = stdout \o r.printed
                    /\ idx' = idx + 1
                    /\ UNCHANGED <<pc, openHandles, exitCode, uncaught>>
               ELSE /\ openHandles' = openHandles \cup {file}
                    /\ pc' = "opened"
                    /\ UNCHANGED <<result_array, idx, stdout, exitCode, uncaught>>
    /\ UNCHANGED <<envVars, argVars, outVars, outFileBefore, headers, files_to_check>>

\* The body of the with statement and the rest of the iteration: the
\* recipients are read, the handle is released, the row is appended.
ClassifyRead ==
    /\ pc = "opened"
    /\ LET file == files_to_check[idx]
           r == get_encrypted_recipient(cur, gpg_installed)
       IN  /\ openHandles' = ReleaseHandle(openHandles, file, cur.parse_raises)
           /\ result_array' = AppendRow(result_array, file, r.value)
           /\ stdout' = stdout \o r.printed
           /\ idx' = idx + 1
           /\ pc' = "loop"
    /\ UNCHANGED <<envVars, argVars, outVars, outFileBefore, headers, files_to_check, cur,
                   calls, exitCode, uncaught>>

\* Variant: the table is printed only when no CSV file is asked for.
ShouldPrintTable_OnlyWithoutOutFile(supress, outfile_path) ==
    ~supress /\ ~Truthy(outfile_path)

\* if(not SUPRESS)
ShouldPrintTable(supress, outfile_path) == ~supress

\* After the loop: headers = [...]; the table is printed unless suppressed.
PrintTable ==
    /\ pc = "loop"
    /\ idx > Len(files_to_check)
    /\ headers' = MainHeaders
    /\ tableOut' = IF ShouldPrintTable(SUPRESS, OUTFILE_PATH)
                   THEN [printed |-> TRUE, rows |-> result_array]
                   ELSE tableOut
    /\ cur' = NoContent
    /\ pc' = "csv"
    /\ UNCHANGED <<envVars, argVars, files_to_check, result_array, idx, openHandles, calls,
                   outFile, write_ret, outFileBefore, stdout, exitCode, uncaught>>

\* if(OUTFILE_PATH): write_array_to_csv(...); then main returns.
WriteCsv ==
    /\ pc = "csv"
    /\ IF Truthy(OUTFILE_PATH)
       THEN \E io \in IoOutcomes(Len(result_array) + 1) :
               LET w == write_array_to_csv(result_array, headers, outFile,
                                           ALLOW_CLOBBER, io)
               IN  /\ outFile' = w.file
                   /\ write_ret' = PyBool(w.ret)
                   /\ stdout' = Append(stdout, w.printed)
                   /\ uncaught' = IF w.raised THEN "Exception" ELSE uncaught
                   /\ exitCode' = IF w.raised THEN "1" ELSE "0"
       ELSE /\ exitCode' = "0"
            /\ UNCHANGED <<outFile, write_ret, stdout, uncaught>>
    /\ pc' = "done"
    /\ UNCHANGED <<envVars, argVars, scanVars, tableOut, outFileBefore, headers>>

Next == Start \/ ListFiles \/ ClassifyOpen \/ ClassifyRead \/ PrintTable \/ WriteCsv

Spec == Init /\ [][Next]_vars

\* ------------------------------------------------- write_array_to_csv alone
CsvFieldVals == {PyStr("x"), PyNone}
CsvRows == {<<a, b>> : a \in CsvFieldVals, b \in CsvFieldVals}
           \cup {<<a, b, c>> : a \in CsvFieldVals, b \in CsvFieldVals, c \in CsvFieldVals}
CsvHeaders == {<<PyStr("A"), PyStr("B")>>, MainHeaders}

\* The arguments of the call are result_array (data), headers, the file at
\* the output path and ALLOW_CLOBBER.
CsvInit ==
    /\ fs_ntop = 0 /\ fs_nsub = 0 /\ gpg_installed = TRUE
    /\ outFile \in {AbsentFile, OldFile}
    /\ outFileBefore = outFile
    /\ pc = "call"
    /\ args = NoArgs
    /\ RECURSIVE_ = FALSE /\ SUPRESS = FALSE
    /\ ALLOW_CLOBBER \in BOOLEAN
    /\ PATH_TO_CHECK = "" /\ OUTFILE_PATH = PyStr("out.csv")
    /\ files_to_check = <<>>
    /\ result_array \in SeqsUpTo(CsvRows, MaxRows)
    /\ headers \in CsvHeaders
    /\ idx = 1
    /\ cur = NoContent
    /\ openHandles = {}
    /\ calls = <<>>
    /\ stdout = <<>>
    /\ tableOut = [printed |-> FALSE, rows |-> <<>>]
    /\ write_ret = PyNone
    /\ exitCode = ""
    /\ uncaught = ""

CallWriteArrayToCsv ==
    /\ pc = "call"
    /\ \E io \in IoOutcomes(Len(result_array) + 1) :
        LET w == write_array_to_csv(result_array, headers, outFile, ALLOW_CLOBBER, io)
        IN  /\ outFile' = w.file
            /\ write_ret' = PyBool(w.ret)
            /\ stdout' = Append(stdout, w.printed)
            /\ pc' = IF w.raised THEN "raised" ELSE "returned"
    /\ UNCHANGED <<envVars, argVars, scanVars, tableOut, outFileBefore, headers, exitCode,
                   uncaught>>

CsvNext == CallWriteArrayToCsv

CsvSpec == CsvInit /\ [][CsvNext]_vars

\* --------------------------------------------------------------- properties
\* A recipient is present in a row: the cell holds a key ID.
RecipientPresent(v) == v.t = "str" /\ v.v \in KeyIds

\* In the loop, after at least one iteration: the row of the file classified
\* last, whose content is cur.
LastRow == result_array[idx - 1]
AfterIteration == pc = "loop" /\ idx > 1
ClassificationFailed == ~cur.readable \/ cur.parse_raises

RECURSIVE ResolveRaw(_, _)
\* The kind of file the operating system finds at the path as typed, walking
\* its components from the working directory (at: the directory reached).
ResolveRaw(comps, at) ==
    LET here == IF at = <<>> THEN "dir" ELSE FsKind(Join(at))
    IN  IF comps = <<>> THEN here
        ELSE IF here # "dir" THEN "missing"
        ELSE LET c == Head(comps)
             IN  IF c \in {"", "."} THEN ResolveRaw(Tail(comps), at)
                 ELSE IF c = ".."
                 THEN ResolveRaw(Tail(comps),
                                 IF at = <<>> THEN at ELSE SubSeq(at, 1, Len(at) - 1))
                 ELSE ResolveRaw(Tail(comps), Append(at, c))

\* Nothing of the scan or of the output has happened.
NothingDone ==
    /\ files_to_check = <<>> /\ calls = <<>> /\ result_array = <<>>
    /\ ~tableOut.printed
    /\ outFile = outFileBefore /\ write_ret = PyNone

\* The process has ended with a non-zero status and told the user why, before
\* anything was listed, classified or written.
FatalBeforeScan ==
    /\ pc = "exit" /\ exitCode = "1"
    /\ uncaught \in {"FileNotFoundError", "NotADirectoryError"} \/ stdout # <<>>
    /\ NothingDone

\* C1: classification never raises to the caller; every failure becomes a row
\* with no recipient and is_encrypted = False, and the loop goes on.
C1_ClassifyNeverRaises ==
    /\ calls # <<>> => uncaught = ""
    /\ (AfterIteration /\ ClassificationFailed) =>
          /\ ~RecipientPresent(LastRow[2])
          /\ LastRow[3] = PyFalse

\* C2: in every row of the report, at every point of the scan, is_encrypted is
\* true if and only if the row holds a recipient.
C2_EncryptedIffRecipient ==
    /\ \A i \in 1..Len(result_array) :
          /\ result_array[i][3] \in {PyTrue, PyFalse}
          /\ result_array[i][3] = PyTrue <=> RecipientPresent(result_array[i][2])
    /\ \A i \in 1..Len(tableOut.rows) :
          tableOut.rows[i][3] = PyTrue <=> RecipientPresent(tableOut.rows[i][2])

C2_Witness ==
    /\ pc = "done"
    /\ tableOut.rows = result_array
    /\ \E i, k \in 1..Len(result_array) :
          /\ result_array[i][2] = PyFalse /\ result_array[i][3] = PyFalse
          /\ RecipientPresent(result_array[k][2]) /\ result_array[k][3] = PyTrue

\* C3: once the loop has finished the report holds one row per file of
\* files_to_check, in that order, and each file was classified exactly once;
\* during the loop the rows and the calls are the files taken so far.
C3_OneRowPerFileInOrder ==
    /\ calls = SubSeq(files_to_check, 1, Len(calls))
    /\ Len(result_array) <= Len(calls)
    /\ \A i \in 1..Len(result_array) : result_array[i][1] = PyStr(files_to_check[i])
    /\ pc \in {"csv", "done"} =>
          /\ Len(result_array) = Len(files_to_check)
          /\ calls = files_to_check

C3_Witness ==
    /\ pc = "done"
    /\ Len(files_to_check) = MaxFiles
    /\ Len(result_array) = MaxFiles
    /\ result_array[1][2] = PyFalse
    /\ RecipientPresent(result_array[MaxFiles][2])

\* Some data row of the call has not as many fields as the header.
SomeRowOffSize == \E i \in 1..Len(result_array) : Len(result_array[i]) # Len(headers)

\* The call was made with the output file present and clobbering not allowed.
ConflictCall == pc = "returned" /\ outFileBefore.exists /\ ~ALLOW_CLOBBER

C5_ConflictLeavesReportAndTable ==
    /\ [][pc = "csv" => (result_array' = result_array /\ tableOut' = tableOut)]_vars
    /\ [](pc = "done" =>
            /\ Len(result_array) = Len(files_to_check)
            /\ ~SUPRESS => (tableOut.printed /\ tableOut.rows = result_array)
            /\ SUPRESS => ~tableOut.printed)

C5_Witness ==
    /\ pc = "done"
    /\ ~SUPRESS
    /\ stdout # <<>>
    /\ Last(stdout) = "Error: FileExistsError"
    /\ write_ret = PyFalse
    /\ outFile = outFileBefore
    /\ result_array # <<>>
    /\ tableOut.printed /\ tableOut.rows = result_array

\* C6: a file with a non-empty recipient list is reported with the first key
\* ID of the list and is_encrypted = True; one with an empty list with None.
C6_FirstRecipientWins ==
    (AfterIteration /\ ~ClassificationFailed) =>
        IF cur.recipients # <<>>
        THEN LastRow[2] = PyStr(cur.recipients[1]) /\ LastRow[3] = PyTrue
        ELSE LastRow[2] = PyNone /\ LastRow[3] = PyFalse

C6_Witness ==
    /\ AfterIteration /\ ~ClassificationFailed
    /\ Len(cur.recipients) = 2
    /\ cur.recipients[1] # cur.recipients[2]
    /\ ZeroKeyId # cur.recipients[1]
    /\ LastRow[2] = PyStr(cur.recipients[1])

\* The first recipient gpg reports for the file classified last is the
\* all-zero key ID of a hidden recipient.
HiddenFirst ==
    /\ AfterIteration /\ ~ClassificationFailed
    /\ cur.recipients # <<>>
    /\ cur.recipients[1] = ZeroKeyId

\* C7 as stated: a file whose first recipient key ID is all zeros is reported
\* with recipient None and is_encrypted = False.
C7_HiddenRecipientIsNone ==
    HiddenFirst => (LastRow[2] = PyNone /\ LastRow[3] = PyFalse)

\* C7 amended: the all-zero key ID is reported like any other: the row holds
\* it as the recipient and is_encrypted = True.
C7_HiddenRecipientReported ==
    HiddenFirst => (LastRow[2] = PyStr(ZeroKeyId) /\ LastRow[3] = PyTrue)

C7_Witness == HiddenFirst /\ LastRow[3] = PyTrue

C9_HandlesScoped ==
    /\ Cardinality(openHandles) <= 1
    /\ pc = "opened" => openHandles = {files_to_check[idx]}
    /\ pc # "opened" => openHandles = {}

C9_Witness ==
    /\ AfterIteration
    /\ cur.readable /\ cur.parse_raises
    /\ LastRow[2] = PyFalse
    /\ Len(result_array) = MaxFiles
    /\ RecipientPresent(result_array[1][2])
    /\ openHandles = {}

\* C10: write_array_to_csv never raises; it returns True exactly when it wrote
\* the header line and then the data rows in order (when it returns False the
\* file is as before or holds less than that); with a row whose length is not
\* the header's it returns False and leaves the file as it was, also with
\* allow_clobber.
C10_TrueIffWritten ==
    /\ pc # "raised"
    /\ pc = "returned" =>
          LET full == [exists |-> TRUE, content |-> CsvLines(headers, result_array)]
          IN  /\ write_ret \in {PyTrue, PyFalse}
              /\ write_ret = PyTrue <=> Last(stdout) = "File successfully written"
              /\ write_ret = PyTrue => outFile = full
              /\ write_ret = PyFalse =>
                    \/ outFile = outFileBefore
                    \/ /\ outFile.exists
                       /\ Len(outFile.content) < Len(full.content)
                       /\ outFile.content = SubSeq(full.content, 1, Len(outFile.content))
              /\ SomeRowOffSize =>
                    (write_ret = PyFalse /\ outFile = outFileBefore)

C10_Witness ==
    /\ pc = "returned"
    /\ SomeRowOffSize
    /\ ALLOW_CLOBBER
    /\ outFileBefore.exists
    /\ write_ret = PyFalse
    /\ outFile = outFileBefore

====
